---------------------------- MODULE Spec2Model ----------------------------
(***************************************************************************)
(* The ICMPv6 match extension of iptables 1.6.0 (extensions/libip6t_icmp6.c)*)
(* with the type-range option: selector parsing, display and save          *)
(* rendering of one rule's match data.                                     *)
(*                                                                         *)
(* A C string is a sequence of one-character strings; its terminating NUL  *)
(* is implicit.  Numbers keep the width of the C object that holds them.   *)
(***************************************************************************)
EXTENDS Integers, Sequences, FiniteSets

VARIABLES
    rule,   \* struct ip6t_icmp: the match data of the rule being built
    pc,     \* "pending" | "ready" | "exited" (xtables_error ends the process)
    call,   \* the operation that produced this state, with its arguments
    xflags, \* cb->xflags: the ids of the options already given on the rule
    err,    \* what xtables_error reported, kind "none" when nothing
    out     \* what the last operation wrote to stdout

vars == <<rule, xflags, pc, call, err, out>>

-----------------------------------------------------------------------------
(* Bounds of the model *)

MaxTypeLen == 5     \* longest generated --icmpv6-type argument
MaxRangeLen == 5    \* longest generated --icmpv6-type-range argument

-----------------------------------------------------------------------------
(* Program constants *)

O_ICMPV6_TYPE == 0
O_ICMPV6_TYPE_RANGE == 1
UINT8_MAX == 255
IP6T_ICMP_INV == 1

icmpv6_codes ==
  <<[name |-> <<"d", "e", "s", "t", "i", "n", "a", "t", "i", "o", "n", "-", "u", "n", "r", "e", "a", "c", "h", "a", "b", "l", "e">>,
     type |-> 1, code_min |-> 0, code_max |-> 255],
    [name |-> <<"n", "o", "-", "r", "o", "u", "t", "e">>,
     type |-> 1, code_min |-> 0, code_max |-> 0],
    [name |-> <<"c", "o", "m", "m", "u", "n", "i", "c", "a", "t", "i", "o", "n", "-", "p", "r", "o", "h", "i", "b", "i", "t", "e", "d">>,
     type |-> 1, code_min |-> 1, code_max |-> 1],
    [name |-> <<"b", "e", "y", "o", "n", "d", "-", "s", "c", "o", "p", "e">>,
     type |-> 1, code_min |-> 2, code_max |-> 2],
    [name |-> <<"a", "d", "d", "r", "e", "s", "s", "-", "u", "n", "r", "e", "a", "c", "h", "a", "b", "l", "e">>,
     type |-> 1, code_min |-> 3, code_max |-> 3],
    [name |-> <<"p", "o", "r", "t", "-", "u", "n", "r", "e", "a", "c", "h", "a", "b", "l", "e">>,
     type |-> 1, code_min |-> 4, code_max |-> 4],
    [name |-> <<"f", "a", "i", "l", "e", "d", "-", "p", "o", "l", "i", "c", "y">>,
     type |-> 1, code_min |-> 5, code_max |-> 5],
    [name |-> <<"r", "e", "j", "e", "c", "t", "-", "r", "o", "u", "t", "e">>,
     type |-> 1, code_min |-> 6, code_max |-> 6],
    [name |-> <<"p", "a", "c", "k", "e", "t", "-", "t", "o", "o", "-", "b", "i", "g">>,
     type |-> 2, code_min |-> 0, code_max |-> 255],
    [name |-> <<"t", "i", "m", "e", "-", "e", "x", "c", "e", "e", "d", "e", "d">>,
     type |-> 3, code_min |-> 0, code_max |-> 255],
    [name |-> <<"t", "t", "l", "-", "e", "x", "c", "e", "e", "d", "e", "d">>,
     type |-> 3, code_min |-> 0, code_max |-> 255],
    [name |-> <<"t", "t", "l", "-", "z", "e", "r", "o", "-", "d", "u", "r", "i", "n", "g", "-", "t", "r", "a", "n", "s", "i", "t">>,
     type |-> 3, code_min |-> 0, code_max |-> 0],
    [name |-> <<"t", "t", "l", "-", "z", "e", "r", "o", "-", "d", "u", "r", "i", "n", "g", "-", "r", "e", "a", "s", "s", "e", "m", "b", "l", "y">>,
     type |-> 3, code_min |-> 1, code_max |-> 1],
    [name |-> <<"p", "a", "r", "a", "m", "e", "t", "e", "r", "-", "p", "r", "o", "b", "l", "e", "m">>,
     type |-> 4, code_min |-> 0, code_max |-> 255],
    [name |-> <<"b", "a", "d", "-", "h", "e", "a", "d", "e", "r">>,
     type |-> 4, code_min |-> 0, code_max |-> 0],
    [name |-> <<"u", "n", "k", "n", "o", "w", "n", "-", "h", "e", "a", "d", "e", "r", "-", "t", "y", "p", "e">>,
     type |-> 4, code_min |-> 1, code_max |-> 1],
    [name |-> <<"u", "n", "k", "n", "o", "w", "n", "-", "o", "p", "t", "i", "o", "n">>,
     type |-> 4, code_min |-> 2, code_max |-> 2],
    [name |-> <<"e", "c", "h", "o", "-", "r", "e", "q", "u", "e", "s", "t">>,
     type |-> 128, code_min |-> 0, code_max |-> 255],
    [name |-> <<"p", "i", "n", "g">>,
     type |-> 128, code_min |-> 0, code_max |-> 255],
    [name |-> <<"e", "c", "h", "o", "-", "r", "e", "p", "l", "y">>,
     type |-> 129, code_min |-> 0, code_max |-> 255],
    [name |-> <<"p", "o", "n", "g">>,
     type |-> 129, code_min |-> 0, code_max |-> 255],
    [name |-> <<"r", "o", "u", "t", "e", "r", "-", "s", "o", "l", "i", "c", "i", "t", "a", "t", "i", "o", "n">>,
     type |-> 133, code_min |-> 0, code_max |-> 255],
    [name |-> <<"r", "o", "u", "t", "e", "r", "-", "a", "d", "v", "e", "r", "t", "i", "s", "e", "m", "e", "n", "t">>,
     type |-> 134, code_min |-> 0, code_max |-> 255],
    [name |-> <<"n", "e", "i", "g", "h", "b", "o", "u", "r", "-", "s", "o", "l", "i", "c", "i", "t", "a", "t", "i", "o", "n">>,
     type |-> 135, code_min |-> 0, code_max |-> 255],
    [name |-> <<"n", "e", "i", "g", "h", "b", "o", "r", "-", "s", "o", "l", "i", "c", "i", "t", "a", "t", "i", "o", "n">>,
     type |-> 135, code_min |-> 0, code_max |-> 255],
    [name |-> <<"n", "e", "i", "g", "h", "b", "o", "u", "r", "-", "a", "d", "v", "e", "r", "t", "i", "s", "e", "m", "e", "n", "t">>,
     type |-> 136, code_min |-> 0, code_max |-> 255],
    [name |-> <<"n", "e", "i", "g", "h", "b", "o", "r", "-", "a", "d", "v", "e", "r", "t", "i", "s", "e", "m", "e", "n", "t">>,
     type |-> 136, code_min |-> 0, code_max |-> 255],
    [name |-> <<"r", "e", "d", "i", "r", "e", "c", "t">>,
     type |-> 137, code_min |-> 0, code_max |-> 255]>>

limit == Len(icmpv6_codes)

\* x6_options: the two options, and whether each may be inverted
icmp6_opts ==
  <<[name |-> <<"i", "c", "m", "p", "v", "6", "-", "t", "y", "p", "e">>,
     id |-> O_ICMPV6_TYPE, invertible |-> TRUE],
    [name |-> <<"i", "c", "m", "p", "v", "6", "-", "t", "y", "p", "e", "-", "r", "a", "n", "g", "e">>,
     id |-> O_ICMPV6_TYPE_RANGE, invertible |-> FALSE]>>

-----------------------------------------------------------------------------
(* C library pieces the module relies on *)

Digits == <<"0", "1", "2", "3", "4", "5", "6", "7", "8", "9">>
HexDigits == Digits \o <<"A", "B", "C", "D", "E", "F">>

isdigit(c) == \E d \in 1..10 : Digits[d] = c
DigitVal(c) == (CHOOSE d \in 1..10 : Digits[d] = c) - 1
\* C isspace: blank, \t, \n, \v, \f, \r (the fourth string below holds the
\* vertical tab itself, for which TLA+ has no escape)
isspace(c) == c \in {" ", "\t", "\n", "", "\f", "\r"}

UpperCase == <<"A", "B", "C", "D", "E", "F", "G", "H", "I", "J", "K", "L", "M",
               "N", "O", "P", "Q", "R", "S", "T", "U", "V", "W", "X", "Y", "Z">>
LowerCase == <<"a", "b", "c", "d", "e", "f", "g", "h", "i", "j", "k", "l", "m",
               "n", "o", "p", "q", "r", "s", "t", "u", "v", "w", "x", "y", "z">>

tolower(c) ==
    IF \E k \in 1..26 : UpperCase[k] = c
    THEN LowerCase[CHOOSE k \in 1..26 : UpperCase[k] = c]
    ELSE c

toupper(c) ==
    IF \E k \in 1..26 : LowerCase[k] = c
    THEN UpperCase[CHOOSE k \in 1..26 : LowerCase[k] = c]
    ELSE c

\* the character at 1-based position k of a C string, "NUL" at its end
CharAt(s, k) == IF k <= Len(s) THEN s[k] ELSE "NUL"

\* strncasecmp(s1, s2, n) == 0: the first n characters agree ignoring case,
\* the comparison ending early at a NUL both strings have in the same place
RECURSIVE CaseCmpFrom(_, _, _, _)
CaseCmpFrom(s1, s2, k, n) ==
    IF k > n THEN TRUE
    ELSE IF tolower(CharAt(s1, k)) # tolower(CharAt(s2, k)) THEN FALSE
    ELSE IF CharAt(s1, k) = "NUL" THEN TRUE
    ELSE CaseCmpFrom(s1, s2, k + 1, n)

strncasecmp_eq_exact(s1, s2, n) ==
    /\ Len(s1) >= n
    /\ Len(s2) >= n
    /\ \A k \in 1..n : s1[k] = s2[k]

strncasecmp_eq(s1, s2, n) == CaseCmpFrom(s1, s2, 1, n)

\* the position of the last c in s instead, as strrchr gives it
strrchr(s, c) ==
    IF \E k \in 1..Len(s) : s[k] = c
    THEN CHOOSE k \in 1..Len(s) : s[k] = c /\ \A j \in (k + 1)..Len(s) : s[j] # c
    ELSE 0

\* strchr(s, c): the position of the first c in s, 0 when there is none
strchr(s, c) ==
    IF \E k \in 1..Len(s) : s[k] = c
    THEN CHOOSE k \in 1..Len(s) : s[k] = c /\ \A j \in 1..(k - 1) : s[j] # c
    ELSE 0

\* printf("%u", n)
RECURSIVE FormatU(_)
FormatU(n) ==
    IF n < 10 THEN <<Digits[n + 1]>>
    ELSE Append(FormatU(n \div 10), Digits[(n % 10) + 1])

\* printf("%X", n)
RECURSIVE FormatX(_)
FormatX(n) ==
    IF n < 16 THEN <<HexDigits[n + 1]>>
    ELSE Append(FormatX(n \div 16), HexDigits[(n % 16) + 1])

\* the length of the longest run of characters satisfying isspace / isdigit
\* that starts at position k
RECURSIVE SpaceRun(_, _)
SpaceRun(s, k) ==
    IF k <= Len(s) /\ isspace(s[k]) THEN 1 + SpaceRun(s, k + 1) ELSE 0

RECURSIVE DigitRun(_, _)
DigitRun(s, k) ==
    IF k <= Len(s) /\ isdigit(s[k]) THEN 1 + DigitRun(s, k + 1) ELSE 0

-----------------------------------------------------------------------------
(* unsigned int values as sscanf stores them: 32 bits, kept as two 16-bit  *)
(* halves so that a wrapped negative number stays representable            *)

HALF == 65536

U32(v) == [hi |-> (v \div HALF) % HALF, lo |-> v % HALF]

\* the 32-bit two's complement of u
U32Neg(u) ==
    [hi |-> ((HALF - 1) - u.hi + (IF u.lo = 0 THEN 1 ELSE 0)) % HALF,
     lo |-> (HALF - u.lo) % HALF]

U32Le(a, b) == a.hi < b.hi \/ (a.hi = b.hi /\ a.lo <= b.lo)

\* strtoul on a run of decimal digits, unsigned long being 64 bits: the
\* value in four 16-bit limbs, lowest first, and whether it left the range
RECURSIVE ULongOf(_)
ULongOf(s) ==
    IF s = <<>> THEN [limbs |-> <<0, 0, 0, 0>>, over |-> FALSE]
    ELSE LET p == ULongOf(SubSeq(s, 1, Len(s) - 1))
             a1 == p.limbs[1] * 10 + DigitVal(s[Len(s)])
             a2 == p.limbs[2] * 10 + (a1 \div HALF)
             a3 == p.limbs[3] * 10 + (a2 \div HALF)
             a4 == p.limbs[4] * 10 + (a3 \div HALF)
         IN [limbs |-> <<a1 % HALF, a2 % HALF, a3 % HALF, a4 % HALF>>,
             over |-> p.over \/ a4 >= HALF]

\* what %u stores for an optional "-" and a run of digits: the low 32 bits
\* of the unsigned long, which is ULONG_MAX when the digits overflow it and
\* is negated when there is a "-"
StoredUInt(negative, digits) ==
    LET v == ULongOf(digits)
        low == [hi |-> v.limbs[2], lo |-> v.limbs[1]]
    IN IF v.over THEN [hi |-> HALF - 1, lo |-> HALF - 1]
       ELSE IF negative THEN U32Neg(low)
       ELSE low

\* one %u conversion of sscanf starting at position k: white space is
\* skipped, a sign is accepted, then at least one decimal digit is needed;
\* "next" is the position after the last character consumed
scan_u(s, k) ==
    LET p == k + SpaceRun(s, k)
        signed == p <= Len(s) /\ s[p] \in {"+", "-"}
        q == IF signed THEN p + 1 ELSE p
        n == DigitRun(s, q)
    IN IF n = 0
       THEN [ok |-> FALSE, eof |-> p > Len(s), val |-> U32(0), next |-> q]
       ELSE [ok |-> TRUE, eof |-> FALSE,
             val |-> StoredUInt(signed /\ s[p] = "-", SubSeq(s, q, q + n - 1)),
             next |-> q + n]

\* the count and the values once both conversions were tried
sscanf_second(a, b) ==
    IF ~b.ok
    THEN [count |-> 1, min |-> a.val, max |-> U32(0)]
    ELSE [count |-> 2, min |-> a.val, max |-> b.val]

\* what follows the first conversion a: the ":" and the second conversion
sscanf_first(s, a) ==
    IF ~a.ok
    THEN [count |-> IF a.eof THEN -1 ELSE 0, min |-> U32(0), max |-> U32(0)]
    ELSE IF CharAt(s, a.next) # ":"
    THEN [count |-> 1, min |-> a.val, max |-> U32(0)]
    ELSE sscanf_second(a, scan_u(s, a.next + 1))

\* sscanf(s, "%u:%u$", &min, &max): the number of conversions stored, -1
\* (EOF) when the input ends before the first conversion.  The
\* directive `$' after the second conversion is an ordinary character: it
\* is matched after both values are stored and cannot lower the count.
sscanf_range(s) == sscanf_first(s, scan_u(s, 1))

\* the digits of strtoumax for base 8, 10 or 16
IsBaseDigit(c, base) ==
    \E d \in 1..base : HexDigits[d] = toupper(c)
BaseDigitVal(c, base) ==
    (CHOOSE d \in 1..base : HexDigits[d] = toupper(c)) - 1

RECURSIVE BaseDigitRun(_, _, _)
BaseDigitRun(s, k, base) ==
    IF k <= Len(s) /\ IsBaseDigit(s[k], base)
    THEN 1 + BaseDigitRun(s, k + 1, base)
    ELSE 0

\* the value of a run of digits of the base, kept exact up to cap and
\* cap + 1 for everything above
RECURSIVE CappedValue(_, _, _)
CappedValue(s, base, cap) ==
    IF s = <<>> THEN 0
    ELSE LET v == base * CappedValue(SubSeq(s, 1, Len(s) - 1), base, cap)
                  + BaseDigitVal(s[Len(s)], base)
         IN IF v > cap THEN cap + 1 ELSE v

\* the digits strtoumax converts from position k on in the given base:
\* "end" is the position after the last digit, 1 when there is no digit;
\* the value is exact up to cap
strtoumax_digits(s, k, base, cap) ==
    LET n == BaseDigitRun(s, k, base)
    IN IF n = 0 THEN [end |-> 1, v |-> 0]
       ELSE [end |-> k + n,
             v |-> CappedValue(SubSeq(s, k, k + n - 1), base, cap)]

\* the base strtoumax takes from the text at position q: "0x" before a
\* hexadecimal digit selects base 16, another leading "0" base 8
strtoumax_base(s, q, cap) ==
    IF /\ CharAt(s, q) = "0"
       /\ CharAt(s, q + 1) \in {"x", "X"}
       /\ IsBaseDigit(CharAt(s, q + 2), 16)
    THEN strtoumax_digits(s, q + 2, 16, cap)
    ELSE IF CharAt(s, q) = "0"
    THEN strtoumax_digits(s, q, 8, cap)
    ELSE strtoumax_digits(s, q, 10, cap)

\* strtoumax(s, &end, 0): white space and a sign are skipped, then the
\* number is read in the base its prefix selects
strtoumax0(s, cap) ==
    LET p == 1 + SpaceRun(s, 1)
    IN strtoumax_base(s, IF CharAt(s, p) \in {"+", "-"} THEN p + 1 ELSE p, cap)

\* what xtables_strtoui makes of r, the number strtoumax read in s: a "-"
\* after the leading white space is refused, a digit must have been
\* converted, the value must be within [min, max] and the number must end
\* the string
strtoui_checked(s, min, max, r) ==
    IF /\ CharAt(s, 1 + SpaceRun(s, 1)) # "-"
       /\ r.end # 1
       /\ min <= r.v
       /\ r.v <= max
       /\ r.end = Len(s) + 1
    THEN [ok |-> TRUE, number |-> r.v]
    ELSE [ok |-> FALSE, number |-> 0]

\* xtables_strtoui(s, NULL, &number, min, max) of libxtables, which reads
\* the number with strtoumax and base 0
xtables_strtoui(s, min, max) == strtoui_checked(s, min, max, strtoumax0(s, max))

-----------------------------------------------------------------------------
(* Errors: what xtables_error(PARAMETER_PROBLEM, ...) is called with *)

\* xtables_error does not return: the process exits
xtables_error == "exited"

NoError == [kind |-> "none", raw |-> <<>>, first |-> <<>>, second |-> <<>>]

\* "Ambiguous ICMPv6 type `%s': `%s' or `%s'?"
Ambiguous(raw, a, b) ==
    [kind |-> "Ambiguous", raw |-> raw, first |-> a, second |-> b]
\* "Invalid ICMPv6 type `%s'"
InvalidType(raw) ==
    [kind |-> "InvalidType", raw |-> raw, first |-> <<>>, second |-> <<>>]
\* "Invalid ICMPv6 code `%s'"
InvalidCode(raw) ==
    [kind |-> "InvalidCode", raw |-> raw, first |-> <<>>, second |-> <<>>]
\* xtables_option_parse: "option \"--%s\" can only be used once."
UsedOnce(name) ==
    [kind |-> "UsedOnce", raw |-> name, first |-> <<>>, second |-> <<>>]
\* xtables_option_parse: "option \"--%s\" cannot be inverted."
CannotInvert(name) ==
    [kind |-> "CannotInvert", raw |-> name, first |-> <<>>, second |-> <<>>]
\* "Invalid ICMPv6 type range `%s'"
InvalidRange(raw) ==
    [kind |-> "InvalidRange", raw |-> raw, first |-> <<>>, second |-> <<>>]

-----------------------------------------------------------------------------
(* parse_icmpv6_type *)

\* the loop over the table: from entry i with the last match in `match',
\* it ends at the second matching entry with the ambiguity error, or at the
\* end of the table with the only match (limit when there is none)
\* the same loop without the ambiguity check: the last match wins
RECURSIVE ScanNames_lastwins(_, _, _)
ScanNames_lastwins(icmpv6type, i, match) ==
    IF i > limit THEN [match |-> match, err |-> NoError]
    ELSE IF strncasecmp_eq(icmpv6_codes[i].name, icmpv6type, Len(icmpv6type))
         THEN ScanNames_lastwins(icmpv6type, i + 1, i)
         ELSE ScanNames_lastwins(icmpv6type, i + 1, match)

RECURSIVE ScanNames(_, _, _)
ScanNames(icmpv6type, i, match) ==
    IF i > limit THEN [match |-> match, err |-> NoError]
    ELSE IF strncasecmp_eq(icmpv6_codes[i].name, icmpv6type, Len(icmpv6type))
         THEN IF match # limit + 1
              THEN [match |-> match,
                    err |-> Ambiguous(icmpv6type, icmpv6_codes[match].name,
                                      icmpv6_codes[i].name)]
              ELSE ScanNames(icmpv6type, i + 1, i)
         ELSE ScanNames(icmpv6type, i + 1, match)

\* the code range stored for a numeric selector with a "/code" part
SlashCodes_wide(number) == <<number, UINT8_MAX>>

SlashCodes(number) == <<number, number>>

\* lines 137-150 with t the conversion of the part before the "/" and c
\* the conversion of the part after it, the code checked first
numeric_stored_codefirst(type, slash, buffer, rest, t, c) ==
    IF slash # 0 /\ ~c.ok
    THEN [type |-> type, err |-> InvalidCode(rest)]
    ELSE IF ~t.ok
    THEN [type |-> type, err |-> InvalidType(buffer)]
    ELSE IF slash # 0
    THEN [type |-> [type EXCEPT !.type = t.number,
                                !.code = SlashCodes(c.number)],
          err |-> NoError]
    ELSE [type |-> [type EXCEPT !.type = t.number,
                                !.code = <<0, UINT8_MAX>>],
          err |-> NoError]

\* lines 137-150 with t the conversion of the part before the "/" and c
\* the conversion of the part after it: type->type is stored before the
\* code is looked at
numeric_stored(type, slash, buffer, rest, t, c) ==
    IF ~t.ok
    THEN [type |-> type, err |-> InvalidType(buffer)]
    ELSE IF slash # 0
    THEN IF ~c.ok
         THEN [type |-> [type EXCEPT !.type = t.number],
               err |-> InvalidCode(rest)]
         ELSE [type |-> [type EXCEPT !.type = t.number,
                                     !.code = SlashCodes(c.number)],
               err |-> NoError]
    ELSE [type |-> [type EXCEPT !.type = t.number,
                                !.code = <<0, UINT8_MAX>>],
          err |-> NoError]

parse_numeric_codefirst(icmpv6type, type) ==
    LET slash == strchr(icmpv6type, "/")
        buffer == IF slash = 0 THEN icmpv6type
                  ELSE SubSeq(icmpv6type, 1, slash - 1)
        rest == SubSeq(icmpv6type, slash + 1, Len(icmpv6type))
    IN numeric_stored_codefirst(type, slash, buffer, rest,
                                xtables_strtoui(buffer, 0, UINT8_MAX),
                                xtables_strtoui(rest, 0, UINT8_MAX))

\* the else branch: the numeric selector "type" or "type/code", split at
\* the first "/"
parse_numeric(icmpv6type, type) ==
    LET slash == strchr(icmpv6type, "/")
        buffer == IF slash = 0 THEN icmpv6type
                  ELSE SubSeq(icmpv6type, 1, slash - 1)
        rest == SubSeq(icmpv6type, slash + 1, Len(icmpv6type))
    IN numeric_stored(type, slash, buffer, rest,
                      xtables_strtoui(buffer, 0, UINT8_MAX),
                      xtables_strtoui(rest, 0, UINT8_MAX))

\* lines 122-151 with r the outcome of the loop: its error, the triple of
\* the entry it found, or the numeric selector
scanned(r, icmpv6type, type) ==
    IF r.err # NoError THEN [type |-> type, err |-> r.err]
    ELSE IF r.match # limit + 1
    THEN [type |-> [type EXCEPT
                      !.type = icmpv6_codes[r.match].type,
                      !.code = <<icmpv6_codes[r.match].code_min,
                                 icmpv6_codes[r.match].code_max>>],
          err |-> NoError]
    ELSE parse_numeric(icmpv6type, type)

\* parse_icmpv6_type(icmpv6type, &type): the struct as the call leaves it,
\* and the error it ended with
parse_icmpv6_type(icmpv6type, type) ==
    scanned(ScanNames(icmpv6type, 1, limit + 1), icmpv6type, type)

-----------------------------------------------------------------------------
(* parse_icmpv6_type_range *)

RangeAccepted(s) ==
    /\ s.count = 2
    /\ U32Le(s.min, s.max)
    /\ U32Le(s.min, U32(UINT8_MAX))
    /\ U32Le(s.max, U32(UINT8_MAX))

\* lines 159-165 with s what sscanf returned and stored, min_type stored
\* before the values are validated
range_stored_early(s, icmpv6type_range, range) ==
    IF RangeAccepted(s)
    THEN [range |-> [range EXCEPT !.min_type = s.min.lo,
                                  !.max_type = s.max.lo],
          err |-> NoError]
    ELSE [range |-> [range EXCEPT !.min_type = s.min.lo % (UINT8_MAX + 1)],
          err |-> InvalidRange(icmpv6type_range)]

\* lines 159-165 with s what sscanf returned and stored
range_stored(s, icmpv6type_range, range) ==
    IF RangeAccepted(s)
    THEN [range |-> [range EXCEPT !.min_type = s.min.lo,
                                  !.max_type = s.max.lo],
          err |-> NoError]
    ELSE [range |-> range, err |-> InvalidRange(icmpv6type_range)]

parse_icmpv6_type_range_early(icmpv6type_range, range) ==
    range_stored_early(sscanf_range(icmpv6type_range), icmpv6type_range, range)

parse_icmpv6_type_range(icmpv6type_range, range) ==
    range_stored(sscanf_range(icmpv6type_range), icmpv6type_range, range)



-----------------------------------------------------------------------------
(* The texts of the printf formats *)

T_IPV6_ICMP == <<" ", "i", "p", "v", "6", "-", "i", "c", "m", "p">>
T_TYPE == <<"t", "y", "p", "e", " ">>
T_CODE == <<" ", "c", "o", "d", "e", " ">>
T_CODES == <<" ", "c", "o", "d", "e", "s", " ">>
T_BANG == <<" ", "!">>
T_UNKNOWN == <<" ", "U", "n", "k", "n", "o", "w", "n", " ", "i", "n", "v", "f", "l", "a", "g", "s", ":", " ", "0", "x">>
T_SAVE_TYPE == <<" ", "-", "-", "i", "c", "m", "p", "v", "6", "-", "t", "y", "p", "e", " ">>
T_SAVE_RANGE == <<" ", "-", "-", "i", "c", "m", "p", "v", "6", "-", "t", "y", "p", "e", "-", "r", "a", "n", "g", "e", " ">>
T_RANGE == <<"t", "y", "p", "e", " ", "r", "a", "n", "g", "e", " ">>
T_DBG_TYPE == <<"t", "y", "p", "e", ":", " ">>
T_DBG_MIN == <<",", " ", "c", "o", "d", "e", "_", "m", "i", "n", ":", " ">>
T_DBG_MAX == <<",", " ", "c", "o", "d", "e", "_", "m", "a", "x", ":", " ">>
T_DBG_TMIN == <<"t", "y", "p", "e", "_", "m", "i", "n", ":", " ">>
T_DBG_TMAX == <<",", " ", "t", "y", "p", "e", "_", "m", "a", "x", ":", " ">>

T_VALID_TYPES == <<"V", "a", "l", "i", "d", " ", "I", "C", "M", "P", "v", "6", " ", "T", "y", "p", "e", "s", ":">>
T_OTHER_CODES == <<"\n", " ", " ", " ">>

\* the text of the printf of icmp6_help
T_HELP ==
    <<"i", "c", "m", "p", "v", "6", " ", "m", "a", "t", "c", "h",
      " ", "o", "p", "t", "i", "o", "n", "s", ":", "\n", "[", "!",
      "]", " ", "-", "-", "i", "c", "m", "p", "v", "6", "-", "t",
      "y", "p", "e", " ", "t", "y", "p", "e", "n", "a", "m", "e",
      "\t", "m", "a", "t", "c", "h", " ", "i", "c", "m", "p", "v",
      "6", " ", "t", "y", "p", "e", "\n", "\t", "\t", "\t", "\t", "(",
      "o", "r", " ", "n", "u", "m", "e", "r", "i", "c", " ", "t",
      "y", "p", "e", " ", "o", "r", " ", "t", "y", "p", "e", "/",
      "c", "o", "d", "e", ")", "\n", "-", "-", "i", "c", "m", "p",
      "v", "6", "-", "r", "a", "n", "g", "e", "-", "t", "y", "p",
      "e", " ", "m", "i", "n", ":", "m", "a", "x", " ", "m", "a",
      "t", "c", "h", " ", "i", "c", "m", "p", "v", "6", " ", "t",
      "y", "p", "e", " ", "r", "a", "n", "g", "e", "\n", "\t", "\t",
      "\t", "\t", "(", "o", "r", " ", "n", "u", "m", "e", "r", "i",
      "c", " ", "t", "y", "p", "e", " ", "o", "r", " ", "t", "y",
      "p", "e", "/", "c", "o", "d", "e", ")", "\n">>

-----------------------------------------------------------------------------
(* struct ip6t_icmp and the callbacks of the match *)

\* the match data as the framework allocates it, all bytes zero
ZeroData ==
    [opt_type |-> 0,
     type |-> [type |-> 0, code |-> <<0, 0>>, invflags |-> 0],
     range |-> [min_type |-> 0, max_type |-> 0]]

icmp6_init(m) == [m EXCEPT !.type.code[2] = UINT8_MAX]

\* invflags & IP6T_ICMP_INV, invflags | IP6T_ICMP_INV, invflags & ~IP6T_ICMP_INV
HasInv(invflags) == (invflags \div IP6T_ICMP_INV) % 2 = 1
OrInv(invflags) ==
    IF HasInv(invflags) THEN invflags ELSE invflags + IP6T_ICMP_INV
WithoutInv(invflags) ==
    IF HasInv(invflags) THEN invflags - IP6T_ICMP_INV ELSE invflags

OptionOf(id) == icmp6_opts[CHOOSE k \in 1..Len(icmp6_opts) : icmp6_opts[k].id = id]

\* xtables_option_parse(cb) of libxtables for an option of icmp6_opts, which
\* sets neither XTOPT_MULTI nor .excl: an option given before is refused,
\* so is an inverted option without XTOPT_INVERT; otherwise the option's bit
\* is set in cb->xflags
xtables_option_parse(xf, id, invert) ==
    IF id \in xf
    THEN [err |-> UsedOnce(OptionOf(id).name), xflags |-> xf]
    ELSE IF invert /\ ~OptionOf(id).invertible
    THEN [err |-> CannotInvert(OptionOf(id).name), xflags |-> xf]
    ELSE [err |-> NoError, xflags |-> xf \cup {id}]

\* lines 181-186 with p the outcome of parse_icmpv6_type on the tagged
\* match data
icmp6_parse_type(p, tagged, xf, invert) ==
    IF p.err # NoError
    THEN [info |-> [tagged EXCEPT !.type = p.type],
          xflags |-> xf, err |-> p.err, out |-> <<>>]
    ELSE [info |-> [tagged EXCEPT
                      !.type = IF invert
                               THEN [p.type EXCEPT !.invflags = OrInv(@)]
                               ELSE p.type],
          xflags |-> xf, err |-> NoError,
          out |-> T_DBG_TYPE \o FormatU(p.type.type)
                  \o T_DBG_MIN \o FormatU(p.type.code[1])
                  \o T_DBG_MAX \o FormatU(p.type.code[2]) \o <<"\n">>]

\* lines 187-190 with p the outcome of parse_icmpv6_type_range on the
\* tagged match data
icmp6_parse_range(p, tagged, xf) ==
    IF p.err # NoError
    THEN [info |-> [tagged EXCEPT !.range = p.range],
          xflags |-> xf, err |-> p.err, out |-> <<>>]
    ELSE [info |-> [tagged EXCEPT !.range = p.range],
          xflags |-> xf, err |-> NoError,
          out |-> T_DBG_TMIN \o FormatU(p.range.min_type)
                  \o T_DBG_TMAX \o FormatU(p.range.max_type)
                  \o <<"\n">>]

\* lines 180-191 with o the outcome of xtables_option_parse: nothing is
\* stored when it refused the option
icmp6_parse_option(o, info, id, arg, invert) ==
    IF o.err # NoError
    THEN [info |-> info, xflags |-> o.xflags, err |-> o.err, out |-> <<>>]
    ELSE IF id = O_ICMPV6_TYPE
    THEN icmp6_parse_type(parse_icmpv6_type(arg, info.type),
                          [info EXCEPT !.opt_type = id], o.xflags, invert)
    ELSE IF id = O_ICMPV6_TYPE_RANGE
    THEN icmp6_parse_range(parse_icmpv6_type_range(arg, info.range),
                           [info EXCEPT !.opt_type = id], o.xflags)
    ELSE [info |-> [info EXCEPT !.opt_type = id], xflags |-> o.xflags,
          err |-> NoError, out |-> <<>>]

\* icmp6_parse(cb) with cb->entry->id = id, cb->arg = arg, cb->invert = invert
\* and cb->xflags = xf: the match data, the flags, the error and the output
\* it ends with
icmp6_parse(info, xf, id, arg, invert) ==
    icmp6_parse_option(xtables_option_parse(xf, id, invert), info, id, arg, invert)

\* the last entry with this triple instead of the first
RECURSIVE FindTripleLast(_, _, _, _)
FindTripleLast(i, type, code_min, code_max) ==
    IF i > limit THEN limit + 1
    ELSE LET later == FindTripleLast(i + 1, type, code_min, code_max)
         IN IF later # limit + 1 THEN later
            ELSE IF /\ icmpv6_codes[i].type = type
                    /\ icmpv6_codes[i].code_min = code_min
                    /\ icmpv6_codes[i].code_max = code_max
                 THEN i
                 ELSE limit + 1

\* the loop of print_icmpv6type: the first entry from i on with exactly this
\* triple, limit + 1 when there is none
RECURSIVE FindTriple(_, _, _, _)
FindTriple(i, type, code_min, code_max) ==
    IF i > limit THEN limit + 1
    ELSE IF /\ icmpv6_codes[i].type = type
            /\ icmpv6_codes[i].code_min = code_min
            /\ icmpv6_codes[i].code_max = code_max
         THEN i
         ELSE FindTriple(i + 1, type, code_min, code_max)

print_icmpv6type(type, code_min, code_max, invert, numeric) ==
    LET i == IF numeric THEN limit + 1
             ELSE FindTriple(1, type, code_min, code_max)
    IN IF i # limit + 1
       THEN <<" ">> \o (IF invert THEN <<"!">> ELSE <<>>) \o icmpv6_codes[i].name
       ELSE (IF invert THEN T_BANG ELSE <<>>)
            \o T_TYPE \o FormatU(type)
            \o (IF code_min = code_max
                THEN T_CODE \o FormatU(code_min)
                ELSE IF code_min # 0 \/ code_max # UINT8_MAX
                THEN T_CODES \o FormatU(code_min) \o <<"-">> \o FormatU(code_max)
                ELSE <<>>)

print_icmpv6type_range(min_type, max_type) ==
    T_RANGE \o FormatU(min_type) \o <<"-">> \o FormatU(max_type)

icmp6_print(icmpv6, numeric) ==
    T_IPV6_ICMP \o
    (IF icmpv6.opt_type = O_ICMPV6_TYPE
     THEN print_icmpv6type(icmpv6.type.type, icmpv6.type.code[1],
                           icmpv6.type.code[2],
                           HasInv(icmpv6.type.invflags), numeric)
          \o (IF WithoutInv(icmpv6.type.invflags) # 0
              THEN T_UNKNOWN \o FormatX(WithoutInv(icmpv6.type.invflags))
              ELSE <<>>)
     ELSE IF icmpv6.opt_type = O_ICMPV6_TYPE_RANGE
     THEN print_icmpv6type_range(icmpv6.range.min_type, icmpv6.range.max_type)
     ELSE <<>>)

\* whether icmp6_save writes the "/code" part
SaveHasCode_minonly(code) == code[1] # 0

SaveHasCode(code) == code[1] # 0 \/ code[2] # UINT8_MAX

icmp6_save(icmpv6) ==
    IF icmpv6.opt_type = O_ICMPV6_TYPE
    THEN (IF HasInv(icmpv6.type.invflags) THEN T_BANG ELSE <<>>)
         \o T_SAVE_TYPE \o FormatU(icmpv6.type.type)
         \o (IF SaveHasCode(icmpv6.type.code)
             THEN <<"/">> \o FormatU(icmpv6.type.code[1])
             ELSE <<>>)
    ELSE IF icmpv6.opt_type = O_ICMPV6_TYPE_RANGE
    THEN T_SAVE_RANGE \o FormatU(icmpv6.range.min_type)
         \o <<":">> \o FormatU(icmpv6.range.max_type)
    ELSE <<>>

\* the loop of print_icmpv6types from entry i on: an entry with the type of
\* the entry before it follows in brackets when it has the same codes too,
\* and indented on a line of its own otherwise; every other entry starts a
\* line
RECURSIVE TypeNamesFrom(_)
TypeNamesFrom(i) ==
    IF i > limit THEN <<>>
    ELSE (IF i > 1 /\ icmpv6_codes[i].type = icmpv6_codes[i - 1].type
          THEN IF /\ icmpv6_codes[i].code_min = icmpv6_codes[i - 1].code_min
                  /\ icmpv6_codes[i].code_max = icmpv6_codes[i - 1].code_max
               THEN <<" ", "(">> \o icmpv6_codes[i].name \o <<")">>
               ELSE T_OTHER_CODES \o icmpv6_codes[i].name
          ELSE <<"\n">> \o icmpv6_codes[i].name)
         \o TypeNamesFrom(i + 1)

print_icmpv6types == T_VALID_TYPES \o TypeNamesFrom(1) \o <<"\n">>

icmp6_help == T_HELP \o print_icmpv6types


-----------------------------------------------------------------------------
(* The arguments the operations are tried with *)

\* every string over alphabet A of length at most n
RECURSIVE Strs(_, _)
Strs(A, n) ==
    IF n = 0 THEN {<<>>}
    ELSE LET S == Strs(A, n - 1)
         IN S \cup {Append(s, c) : s \in S, c \in A}

Upper(s) == [k \in 1..Len(s) |-> toupper(s[k])]
Lower(s) == [k \in 1..Len(s) |-> tolower(s[k])]
\* odd positions in upper case
Mixed(s) == [k \in 1..Len(s) |-> IF k % 2 = 1 THEN toupper(s[k]) ELSE s[k]]

Names == {icmpv6_codes[i].name : i \in 1..limit}
NamePrefixes == UNION {{SubSeq(n, 1, k) : k \in 1..Len(n)} : n \in Names}

TypeAlphabet == {"0", "1", "8", "x", "/"}
RangeAlphabet == {"2", "5", "6", ":"}

TypeExtras ==
    {<<"2">>, <<"2", "/", "5">>, <<"2", "5", "5">>, <<"2", "5", "6">>,
     <<"2", "/", "2", "5", "6">>, <<"1", "/", "6">>, <<"1", "/", "2", "5", "6">>, <<"2", "/", "x">>,
     <<"0">>, <<"0", "/", "0">>, <<"2", "5", "5", "/", "0">>, <<"0", "/", "2", "5", "5">>,
     <<"p", "i", "n", "g", "/", "2">>, <<"x">>, <<"2", "x">>, <<"2", "/", "x">>,
     <<"x", "/", "x">>, <<"2", "5", "6", "x">>, <<"0", "1", "0">>, <<"0", "8">>,
     <<"0", "x", "1", "0">>, <<"0", "X", "1", "f">>, <<"0", "x">>, <<"0", "x", "g">>,
     <<"0", "3", "7", "7">>, <<"0", "4", "0", "0">>, <<"0", "x", "1", "0", "0">>, <<"1", "/", "0", "1", "0">>,
     <<"2", "/", "0", "x", "5">>, <<" ", "5">>, <<"\t", "5">>, <<"+", "5">>,
     <<"-", "5">>, <<" ", "-", "5">>, <<"+", " ", "5">>, <<"5", " ">>,
     <<"2", "/", " ", "5">>, <<"2", " ", "/", "5">>, <<"0", "0", "0", "0", "0", "0", "0", "0", "0", "1">>, <<"0", "0">>,
     <<"9", "9", "9", "9", "9", "9", "9", "9", "9", "9", "9", "9", "9", "9", "9", "9", "9", "9", "9", "9">>}

RangeExtras ==
    {<<"0", ":", "2", "5", "5">>, <<"1", "0", ":", "5">>, <<"5", ":", "5">>, <<"2", ":", "5", "x">>,
     <<"2", ":", "5", "$">>, <<" ", "2", ":", "5">>, <<"2", ":", " ", "5">>, <<"2", " ", ":", "5">>,
     <<"+", "2", ":", "5">>, <<"2", ":", "+", "5">>, <<"-", "0", ":", "5">>, <<"-", "2", ":", "5">>,
     <<"2", ":", "-", "5">>, <<"x">>, <<"2", ";", "5">>, <<"\t", "2", ":", "5">>,
     <<"2", ":", "\t", "5">>, <<"2", ":", "\n", "5">>, <<"2", ":", "", "\f", "\r", "5">>, <<"0", "1", "0", ":", "5">>,
     <<"0", "x", "2", ":", "5">>, <<"4", "2", "9", "4", "9", "6", "7", "2", "9", "6", ":", "5">>, <<"4", "2", "9", "4", "9", "6", "7", "2", "9", "8", ":", "4", "2", "9", "4", "9", "6", "7", "3", "0", "1">>, <<"1", "8", "4", "4", "6", "7", "4", "4", "0", "7", "3", "7", "0", "9", "5", "5", "1", "6", "1", "8", ":", "5">>,
     <<"-", "4", "2", "9", "4", "9", "6", "7", "2", "9", "7", ":", "5">>, <<"-", "1", "8", "4", "4", "6", "7", "4", "4", "0", "7", "3", "7", "0", "9", "5", "5", "1", "6", "1", "8", ":", "5">>, <<"2", ":", "1", "8", "4", "4", "6", "7", "4", "4", "0", "7", "3", "7", "0", "9", "5", "5", "1", "6", "1", "6">>}

\* --icmpv6-type arguments: names and their prefixes in lower, upper and
\* mixed case, names with a character too many, and numeric selectors
TypeInputs ==
    NamePrefixes \cup {Upper(p) : p \in NamePrefixes}
    \cup {Mixed(n) : n \in Names} \cup {Append(n, "x") : n \in Names}
    \cup Strs(TypeAlphabet, MaxTypeLen) \cup TypeExtras

\* --icmpv6-type-range arguments
RangeInputs == Strs(RangeAlphabet, MaxRangeLen) \cup RangeExtras

\* the arguments tried on a rule that takes several options in a row
TypeArgs ==
    {<<"p", "i", "n", "g">>, <<"P", "O", "N", "G">>, <<"n", "o", "-", "r", "o", "u", "t", "e">>, <<"t", "t", "l", "-", "e", "x", "c", "e", "e", "d", "e", "d">>,
     <<"e", "c", "h", "o", "-", "r", "e">>, <<>>, <<"2">>, <<"2", "/", "5">>,
     <<"0">>, <<"2", "5", "6">>, <<"2", "/", "2", "5", "6">>, <<"2", "/", "x">>,
     <<"0", "1", "0">>, <<"0", "x", "1", "0">>, <<"0", "8">>}

RangeArgs ==
    {<<"2", ":", "5">>, <<"5", ":", "5">>, <<"5", ":", "2">>, <<"0", ":", "2", "5", "5">>, <<"2", ":", "2", "5", "6">>, <<"2", ":", "5", "x">>}

\* match data as the kernel can hand it to icmp6_print and icmp6_save
KernelRules ==
    {[opt_type |-> o,
      type |-> [type |-> t, code |-> <<c0, c1>>, invflags |-> f],
      range |-> [min_type |-> r[1], max_type |-> r[2]]] :
        o \in {O_ICMPV6_TYPE, O_ICMPV6_TYPE_RANGE},
        t \in {1, 3, 4, 128, 200},
        c0 \in {0, 1, 5, UINT8_MAX}, c1 \in {0, 1, 5, UINT8_MAX},
        f \in {0, 1, 2, 3},
        r \in {<<0, 255>>, <<5, 5>>}}

-----------------------------------------------------------------------------
(* The state machine *)

Call(op, id, arg, invert, numeric) ==
    [op |-> op, id |-> id, arg |-> arg, invert |-> invert, numeric |-> numeric]

\* the state a call of icmp6_parse leaves, r being what it ended with; an
\* error ends the process
Returned(r, id, arg, invert) ==
    /\ rule' = r.info
    /\ xflags' = r.xflags
    /\ err' = r.err
    /\ out' = r.out
    /\ pc' = IF r.err # NoError THEN xtables_error ELSE "ready"
    /\ call' = Call("parse", id, arg, invert, FALSE)

\* one call of icmp6_parse on the rule
ParseStep(id, arg, invert) ==
    Returned(icmp6_parse(rule, xflags, id, arg, invert), id, arg, invert)

\* the framework hands icmp6_parse an option of icmp6_opts with its argument
Parse ==
    /\ pc = "ready"
    /\ \E id \in {O_ICMPV6_TYPE, O_ICMPV6_TYPE_RANGE}, invert \in BOOLEAN :
         \E arg \in IF id = O_ICMPV6_TYPE THEN TypeArgs ELSE RangeArgs :
            ParseStep(id, arg, invert)

\* the call picked at the start is made
ApplyParse ==
    /\ pc = "pending"
    /\ ParseStep(call.id, call.arg, call.invert)

Show ==
    /\ pc = "ready"
    /\ \E numeric \in BOOLEAN :
         /\ out' = icmp6_print(rule, numeric)
         /\ call' = Call("print", rule.opt_type, <<>>, FALSE, numeric)
    /\ err' = NoError
    /\ UNCHANGED <<rule, xflags, pc>>

SaveRule ==
    /\ pc = "ready"
    /\ out' = icmp6_save(rule)
    /\ call' = Call("save", rule.opt_type, <<>>, FALSE, FALSE)
    /\ err' = NoError
    /\ UNCHANGED <<rule, xflags, pc>>

\* the framework calls the help callback: the option summary and the list
\* of type names are written, the rule is not touched
Help ==
    /\ pc = "ready"
    /\ out' = icmp6_help
    /\ call' = Call("help", rule.opt_type, <<>>, FALSE, FALSE)
    /\ err' = NoError
    /\ UNCHANGED <<rule, xflags, pc>>

\* a rule under construction: the zeroed match data after icmp6_init
Init ==
    /\ rule = icmp6_init(ZeroData)
    /\ xflags = {}
    /\ pc = "ready"
    /\ call = Call("init", O_ICMPV6_TYPE, <<>>, FALSE, FALSE)
    /\ err = NoError
    /\ out = <<>>

Next == Parse \/ Show \/ SaveRule \/ Help

Spec == Init /\ [][Next]_vars

\* one option parsed on a fresh rule, the argument drawn from the large sets
InitParse ==
    /\ rule = icmp6_init(ZeroData)
    /\ xflags = {}
    /\ pc = "pending"
    /\ \E id \in {O_ICMPV6_TYPE, O_ICMPV6_TYPE_RANGE}, invert \in BOOLEAN :
         \E arg \in IF id = O_ICMPV6_TYPE THEN TypeInputs ELSE RangeInputs :
            call = Call("pending", id, arg, invert, FALSE)
    /\ err = NoError
    /\ out = <<>>

NextParse == ApplyParse \/ Show \/ SaveRule \/ Help

SpecParse == InitParse /\ [][NextParse]_vars

\* a rule read back from the kernel, then listed or saved
InitShow ==
    /\ rule \in KernelRules
    /\ xflags = {}
    /\ pc = "ready"
    /\ call = Call("load", rule.opt_type, <<>>, FALSE, FALSE)
    /\ err = NoError
    /\ out = <<>>

NextShow == Show \/ SaveRule \/ Help

SpecShow == InitShow /\ [][NextShow]_vars

-----------------------------------------------------------------------------
(* Vocabulary of the properties *)

FreshRule == icmp6_init(ZeroData)

\* the option framework refused the option, so its parser did not run
Refused == err.kind \in {"UsedOnce", "CannotInvert"}

\* the call handed its argument to parse_icmpv6_type / parse_icmpv6_type_range
TypeParsed == call.op = "parse" /\ call.id = O_ICMPV6_TYPE /\ ~Refused
RangeParsed == call.op = "parse" /\ call.id = O_ICMPV6_TYPE_RANGE /\ ~Refused

Triple(e) == <<e.type, e.code_min, e.code_max>>
TypeTriple(t) == <<t.type, t.code[1], t.code[2]>>

MinOf(S) == CHOOSE x \in S : \A y \in S : x <= y

\* input is a prefix of name, letter case ignored
IsPrefixCI(input, name) ==
    /\ Len(input) <= Len(name)
    /\ Lower(input) = Lower(SubSeq(name, 1, Len(input)))

\* the catalogue entries a selector is a prefix of
Candidates(input) ==
    {i \in 1..limit : IsPrefixCI(input, icmpv6_codes[i].name)}

\* the value of a run of decimal digits
RECURSIVE DecValue(_)
DecValue(s) ==
    IF s = <<>> THEN 0
    ELSE 10 * DecValue(SubSeq(s, 1, Len(s) - 1)) + DigitVal(s[Len(s)])

\* s is an unsigned decimal integer of [0,255]
IsUInt8(s) ==
    /\ s # <<>>
    /\ Len(s) <= 9
    /\ \A k \in 1..Len(s) : isdigit(s[k])
    /\ DecValue(s) <= UINT8_MAX

\* the numerals of the three notations of a C integer
OctalChars == {"0", "1", "2", "3", "4", "5", "6", "7"}
DecimalChars == OctalChars \cup {"8", "9"}
NumeralsLower ==
    <<"0", "1", "2", "3", "4", "5", "6", "7", "8", "9", "a", "b", "c", "d", "e", "f">>
NumeralsUpper ==
    <<"0", "1", "2", "3", "4", "5", "6", "7", "8", "9", "A", "B", "C", "D", "E", "F">>
HexChars == {NumeralsLower[k] : k \in 1..16} \cup {NumeralsUpper[k] : k \in 1..16}
NumeralVal(c) == (CHOOSE k \in 1..16 : c \in {NumeralsLower[k], NumeralsUpper[k]}) - 1
WhiteChars == {" ", "\t", "\n", "", "\f", "\r"}

\* the value of the numerals ds in base b; 256 stands for every value
\* above 255
RECURSIVE NumeralsValue(_, _)
NumeralsValue(ds, b) ==
    IF ds = <<>> THEN 0
    ELSE LET v == b * NumeralsValue(SubSeq(ds, 1, Len(ds) - 1), b)
                  + NumeralVal(ds[Len(ds)])
         IN IF v > UINT8_MAX THEN UINT8_MAX + 1 ELSE v

RECURSIVE SkipWhite(_)
SkipWhite(s) ==
    IF s # <<>> /\ s[1] \in WhiteChars THEN SkipWhite(Tail(s)) ELSE s

\* s without leading white space and without one "+" after it
Unsigned(s) ==
    LET t == SkipWhite(s)
    IN IF t # <<>> /\ t[1] = "+" THEN Tail(t) ELSE t

IsHexNumber(u) ==
    /\ Len(u) >= 3
    /\ u[1] = "0"
    /\ u[2] \in {"x", "X"}
    /\ \A k \in 3..Len(u) : u[k] \in HexChars

IsOctalNumber(u) ==
    /\ u # <<>>
    /\ u[1] = "0"
    /\ \A k \in 1..Len(u) : u[k] \in OctalChars

IsDecimalNumber(u) ==
    /\ u # <<>>
    /\ u[1] # "0"
    /\ \A k \in 1..Len(u) : u[k] \in DecimalChars

\* the value of s read as a C integer: "0x" and hexadecimal numerals, "0"
\* and octal numerals, or decimal numerals not starting with "0"
CNumberValue(s) ==
    LET u == Unsigned(s)
    IN IF IsHexNumber(u) THEN NumeralsValue(SubSeq(u, 3, Len(u)), 16)
       ELSE IF IsOctalNumber(u) THEN NumeralsValue(u, 8)
       ELSE NumeralsValue(u, 10)

\* s is an unsigned C integer of [0,255], white space and a "+" allowed
\* before it
IsCUInt8(s) ==
    /\ IsHexNumber(Unsigned(s)) \/ IsOctalNumber(Unsigned(s)) \/ IsDecimalNumber(Unsigned(s))
    /\ CNumberValue(s) <= UINT8_MAX

\* where c first occurs in s, 0 when it does not
FirstAt(s, c) ==
    LET at == {k \in 1..Len(s) : s[k] = c}
    IN IF at = {} THEN 0 ELSE MinOf(at)

\* the parts of s before and after its first occurrence of c
Before(s, c) == IF FirstAt(s, c) = 0 THEN s ELSE SubSeq(s, 1, FirstAt(s, c) - 1)
After(s, c) == SubSeq(s, FirstAt(s, c) + 1, Len(s))

\* the parsed criterion: the fields of the active variant
Criterion(info) ==
    IF info.opt_type = O_ICMPV6_TYPE
    THEN <<"Exact", info.type.type, info.type.code[1], info.type.code[2],
           HasInv(info.type.invflags)>>
    ELSE <<"TypeRange", info.range.min_type, info.range.max_type>>

\* the words of a saved rule, separated by spaces
RECURSIVE WordRun(_, _)
WordRun(s, k) ==
    IF k <= Len(s) /\ s[k] # " " THEN 1 + WordRun(s, k + 1) ELSE 0

RECURSIVE Words(_)
Words(s) ==
    IF s = <<>> THEN <<>>
    ELSE IF s[1] = " " THEN Words(Tail(s))
    ELSE <<SubSeq(s, 1, WordRun(s, 1))>>
         \o Words(SubSeq(s, WordRun(s, 1) + 1, Len(s)))

NotAnOption ==
    [kind |-> "NotAnOption", raw |-> <<>>, first |-> <<>>, second |-> <<>>]

\* a saved rule read back: [!] --<option> <argument> handed to icmp6_parse
\* on a fresh rule
ReparseSave(text) ==
    LET w == Words(text)
        invert == w # <<>> /\ w[1] = <<"!">>
        rest == IF invert THEN Tail(w) ELSE w
        opts == {k \in 1..Len(icmp6_opts) :
                    /\ Len(rest) = 2
                    /\ rest[1] = <<"-", "-">> \o icmp6_opts[k].name}
    IN IF opts = {}
       THEN [info |-> FreshRule, xflags |-> {}, err |-> NotAnOption, out |-> <<>>]
       ELSE icmp6_parse(FreshRule, {}, icmp6_opts[MinOf(opts)].id, rest[2], invert)

-----------------------------------------------------------------------------
(* C1: the text icmp6_save writes for a criterion produced by a successful *)
(* parse is accepted when read back, and reading it back gives an equal    *)
(* criterion: same mode, type, code_min, code_max and inverted flag for    *)
(* Exact, same min_type and max_type for TypeRange.                        *)
C1_SaveRoundTrip ==
    (pc = "ready" /\ call.op = "parse") =>
        LET back == ReparseSave(icmp6_save(rule))
        IN /\ back.err = NoError
           /\ Criterion(back.info) = Criterion(rule)

\* an inverted single-code name was parsed: it is saved with a "/code" part
C1_Witness ==
    /\ pc = "ready"
    /\ TypeParsed
    /\ call.invert
    /\ Criterion(rule) = <<"Exact", 1, 0, 0, TRUE>>
    /\ icmp6_save(rule) = T_BANG \o T_SAVE_TYPE \o <<"1", "/", "0">>

(* C2: the table scan succeeds with an entry's triple exactly when one     *)
(* entry has the input as a case-insensitive prefix of its name; with two  *)
(* or more it fails with the ambiguity error naming the first and the      *)
(* second candidate in table order; with none the numeric parser decides.  *)
(* The empty input is ambiguous between the first two entries.             *)
C2_NameResolver ==
    TypeParsed =>
        LET c == Candidates(call.arg)
            numeric == parse_numeric(call.arg, FreshRule.type)
        IN /\ Cardinality(c) = 1 =>
                /\ err = NoError
                /\ TypeTriple(rule.type) = Triple(icmpv6_codes[MinOf(c)])
           /\ Cardinality(c) >= 2 =>
                err = Ambiguous(call.arg,
                                icmpv6_codes[MinOf(c)].name,
                                icmpv6_codes[MinOf(c \ {MinOf(c)})].name)
           /\ c = {} =>
                /\ err = numeric.err
                /\ err = NoError => TypeTriple(rule.type) = TypeTriple(numeric.type)
           /\ call.arg = <<>> =>
                err = Ambiguous(<<>>, icmpv6_codes[1].name, icmpv6_codes[2].name)

\* a proper prefix that only one name starts with was resolved
C2_Witness ==
    /\ TypeParsed
    /\ err = NoError
    /\ Cardinality(Candidates(call.arg)) = 1
    /\ call.arg \notin Names
    /\ call.arg # Lower(call.arg)

(* C3: parse_icmpv6_type_range succeeds if and only if the whole input is  *)
(* <uint>:<uint> with both numbers in [0,255] and min <= max, and then     *)
(* stores exactly those numbers; every other input fails with the          *)
(* invalid-range error and stores nothing.                                 *)
C3_ExactRangeSyntax ==
    RangeParsed =>
        LET lo == Before(call.arg, ":")
            hi == After(call.arg, ":")
            wellformed == /\ FirstAt(call.arg, ":") # 0
                          /\ IsUInt8(lo)
                          /\ IsUInt8(hi)
                          /\ DecValue(lo) <= DecValue(hi)
        IN IF wellformed
           THEN /\ err = NoError
                /\ rule.range = [min_type |-> DecValue(lo), max_type |-> DecValue(hi)]
           ELSE /\ err = InvalidRange(call.arg)
                /\ rule.range = FreshRule.range

(* C4 as stated: for an input that matches no name, the part before the    *)
(* first "/" (or the whole input) must be an unsigned integer of [0,255],  *)
(* written in decimal, else the invalid-type error; without "/" the result *)
(* is (type, 0, 255); with "/" the part after it must be such an integer,  *)
(* else the invalid-code error, and the result is (type, code, code).      *)
C4_NumericParser ==
    (TypeParsed /\ Candidates(call.arg) = {}) =>
        LET type == Before(call.arg, "/")
            code == After(call.arg, "/")
        IN IF ~IsUInt8(type)
           THEN err.kind = "InvalidType"
           ELSE IF FirstAt(call.arg, "/") = 0
           THEN /\ err = NoError
                /\ TypeTriple(rule.type) = <<DecValue(type), 0, UINT8_MAX>>
           ELSE IF ~IsUInt8(code)
           THEN err.kind = "InvalidCode"
           ELSE /\ err = NoError
                /\ TypeTriple(rule.type) = <<DecValue(type), DecValue(code), DecValue(code)>>

(* C4 as amended: the same split at the first "/", the same two errors in  *)
(* the same order and the same results, with each part read as a C integer *)
(* whose base comes from its prefix ("0x" hexadecimal, a leading "0"       *)
(* octal, decimal otherwise), white space and a "+" allowed before it, and *)
(* its value within [0,255].                                               *)
C4_NumericParserCNotation ==
    (TypeParsed /\ Candidates(call.arg) = {}) =>
        LET type == Before(call.arg, "/")
            code == After(call.arg, "/")
        IN IF ~IsCUInt8(type)
           THEN err = InvalidType(type)
           ELSE IF FirstAt(call.arg, "/") = 0
           THEN /\ err = NoError
                /\ TypeTriple(rule.type) = <<CNumberValue(type), 0, UINT8_MAX>>
           ELSE IF ~IsCUInt8(code)
           THEN err = InvalidCode(code)
           ELSE /\ err = NoError
                /\ TypeTriple(rule.type) =
                       <<CNumberValue(type), CNumberValue(code), CNumberValue(code)>>

\* a selector whose code is written with a leading "0" was read in octal
C4_Witness ==
    /\ TypeParsed
    /\ Candidates(call.arg) = {}
    /\ Before(call.arg, "/") = <<"1">>
    /\ After(call.arg, "/") = <<"0", "1", "0">>
    /\ err = NoError
    /\ TypeTriple(rule.type) = <<1, 8, 8>>

(* C5: after icmp6_init and any sequence of option parses the rule holds   *)
(* exactly one variant: the fields of the other mode are as icmp6_init     *)
(* left them, so a TypeRange rule carries no invert flag and no data of an *)
(* earlier --icmpv6-type parse.                                            *)
C5_OneVariant ==
    pc = "ready" =>
        /\ rule.opt_type = O_ICMPV6_TYPE_RANGE => rule.type = FreshRule.type
        /\ rule.opt_type = O_ICMPV6_TYPE => rule.range = FreshRule.range

\* the entries of the catalogue with exactly this triple
TripleEntries(t) == {i \in 1..limit : Triple(icmpv6_codes[i]) = t}

\* the rendering of an Exact criterion as C6 describes it
ExpectedExact(t, inverted, numeric) ==
    (IF inverted THEN <<"!">> ELSE <<>>) \o
    (IF ~numeric /\ TripleEntries(t) # {}
     THEN icmpv6_codes[MinOf(TripleEntries(t))].name
     ELSE T_TYPE \o FormatU(t[1]) \o
          (IF t[2] = t[3] THEN T_CODE \o FormatU(t[2])
           ELSE IF t[2] = 0 /\ t[3] = UINT8_MAX THEN <<>>
           ELSE T_CODES \o FormatU(t[2]) \o <<"-">> \o FormatU(t[3])))

\* what icmp6_print wrote after " ipv6-icmp" and at most one space
ShownBody ==
    LET b == SubSeq(out, Len(T_IPV6_ICMP) + 1, Len(out))
    IN IF b # <<>> /\ b[1] = " " THEN Tail(b) ELSE b

(* C6: print_icmpv6type writes, for a symbolic listing of a triple the     *)
(* catalogue has, the name of the first entry with that triple, and        *)
(* otherwise "type N" followed by " code N" for a single code, by          *)
(* " codes N-M" for a range that is neither single nor [0,255], and by     *)
(* nothing for [0,255]; "!" precedes it exactly when the flag is set.      *)
C6_FormatExact ==
    (call.op = "print" /\ rule.opt_type = O_ICMPV6_TYPE) =>
        LET e == ExpectedExact(TypeTriple(rule.type),
                               HasInv(rule.type.invflags), call.numeric)
            tail == SubSeq(ShownBody, Len(e) + 1, Len(ShownBody))
        IN /\ Len(out) >= Len(T_IPV6_ICMP)
           /\ SubSeq(out, 1, Len(T_IPV6_ICMP)) = T_IPV6_ICMP
           /\ Len(ShownBody) >= Len(e)
           /\ SubSeq(ShownBody, 1, Len(e)) = e
           /\ IF WithoutInv(rule.type.invflags) = 0 THEN tail = <<>>
              ELSE SubSeq(tail, 1, Len(T_UNKNOWN)) = T_UNKNOWN

\* an inverted triple that two names share was listed by name
C6_Witness ==
    /\ call.op = "print"
    /\ ~call.numeric
    /\ rule.opt_type = O_ICMPV6_TYPE
    /\ rule.type.invflags = IP6T_ICMP_INV
    /\ Cardinality(TripleEntries(TypeTriple(rule.type))) = 2
    /\ out = T_IPV6_ICMP \o T_BANG \o icmpv6_codes[10].name

(* C7: every name of the catalogue, canonical or alias, in any letter      *)
(* case, resolves without ambiguity to its own triple, and the symbolic    *)
(* non-inverted rendering of that triple is a catalogue name that resolves *)
(* to the same triple.                                                     *)
C7_NamesResolve ==
    (TypeParsed /\ Lower(call.arg) \in Names) =>
        LET i == CHOOSE k \in 1..limit : icmpv6_codes[k].name = Lower(call.arg)
            shown == Tail(print_icmpv6type(rule.type.type, rule.type.code[1],
                                           rule.type.code[2], FALSE, FALSE))
            back == parse_icmpv6_type(shown, FreshRule.type)
        IN /\ err = NoError
           /\ TypeTriple(rule.type) = Triple(icmpv6_codes[i])
           /\ shown \in Names
           /\ back.err = NoError
           /\ TypeTriple(back.type) = TypeTriple(rule.type)

\* an alias written in capitals was resolved; its triple is listed under
\* the canonical name
C7_Witness ==
    /\ TypeParsed
    /\ err = NoError
    /\ call.arg = Upper(icmpv6_codes[19].name)
    /\ TypeTriple(rule.type) = <<128, 0, UINT8_MAX>>
    /\ Tail(print_icmpv6type(128, 0, UINT8_MAX, FALSE, FALSE)) = icmpv6_codes[18].name

(* C8 as stated: whenever a parse ends in an error, no field of the rule's *)
(* criterion differs from its value before the call.                       *)
C8_NoPartialResults ==
    [][(err'.kind # "none") => rule' = rule]_vars

(* C8 as amended: a parse that ends in an error ends the process at that   *)
(* error, so nothing acts on the rule afterwards.  An option the framework *)
(* refuses leaves the rule as it was.  An argument its parser rejects      *)
(* leaves the invert flag, the code range and the range fields as they     *)
(* were, has already set the mode tag to the failing option, and has       *)
(* overwritten the type field only when the error is the invalid-code      *)
(* error.                                                                  *)
C8_FailFast ==
    [][/\ pc # "exited"
       /\ (err'.kind # "none") => pc' = "exited"
       /\ (err'.kind \in {"UsedOnce", "CannotInvert"}) => rule' = rule
       /\ (err'.kind \in {"Ambiguous", "InvalidType", "InvalidCode", "InvalidRange"}) =>
            /\ rule'.opt_type = call'.id
            /\ rule'.range = rule.range
            /\ rule'.type.invflags = rule.type.invflags
            /\ rule'.type.code = rule.type.code
            /\ rule'.type.type # rule.type.type => err'.kind = "InvalidCode"]_vars

\* a selector with a valid type and an invalid code failed after the type
\* was stored
C8_Witness ==
    /\ pc = "exited"
    /\ TypeParsed
    /\ err.kind = "InvalidCode"
    /\ rule.type.type = 2
    /\ rule.type.code = FreshRule.type.code

\* the selector is neither a name prefix nor <0-255> nor <0-255>/<0-255>,
\* the numbers written in decimal
Unmatched(s) ==
    /\ Candidates(s) = {}
    /\ ~(/\ IsUInt8(Before(s, "/"))
         /\ FirstAt(s, "/") # 0 => IsUInt8(After(s, "/")))

\* the same with the numbers written as C integers
UnmatchedCNotation(s) ==
    /\ Candidates(s) = {}
    /\ ~(/\ IsCUInt8(Before(s, "/"))
         /\ FirstAt(s, "/") # 0 => IsCUInt8(After(s, "/")))

(* C9 as stated: an input that matches neither a catalogue name nor the    *)
(* numeric grammar is reported as UnknownSelector carrying the raw input.  *)
C9_UnknownSelector ==
    (TypeParsed /\ Unmatched(call.arg)) =>
        /\ err.kind = "UnknownSelector"
        /\ err.raw = call.arg

(* C9 as amended: an input that matches neither a catalogue name nor the   *)
(* numeric grammar, its numbers read as C integers of [0,255], is reported *)
(* as the invalid-type error carrying the part before the first "/" when   *)
(* that part is not such a number, and otherwise as the invalid-code error *)
(* carrying the part after the first "/"; no other error kind is reported  *)
(* for it.                                                                 *)
C9_InvalidTypeOrCode ==
    (TypeParsed /\ UnmatchedCNotation(call.arg)) =>
        IF ~IsCUInt8(Before(call.arg, "/"))
        THEN err = InvalidType(Before(call.arg, "/"))
        ELSE err = InvalidCode(After(call.arg, "/"))

\* a selector that is no name and no number was reported as an invalid
\* type, the error carrying only the part before the "/"
C9_Witness ==
    /\ TypeParsed
    /\ UnmatchedCNotation(call.arg)
    /\ FirstAt(call.arg, "/") # 0
    /\ err.kind = "InvalidType"
    /\ err.raw # call.arg
    /\ err.raw # <<>>

(* C10: every Exact criterion reached by icmp6_init and successful         *)
(* --icmpv6-type parses has the full code range [0,255] or a single code,  *)
(* so the "/code_min" that icmp6_save writes loses no code_max.            *)
C10_FullOrSingleCode ==
    (pc = "ready" /\ rule.opt_type = O_ICMPV6_TYPE) =>
        /\ \/ rule.type.code = <<0, UINT8_MAX>>
           \/ rule.type.code[1] = rule.type.code[2]
        /\ SaveHasCode(rule.type.code) => rule.type.code[2] = rule.type.code[1]

\* a numeric selector with a code was parsed
C10_Witness ==
    /\ pc = "ready"
    /\ TypeParsed
    /\ rule.opt_type = O_ICMPV6_TYPE
    /\ rule.type.code = <<5, 5>>
    /\ SaveHasCode(rule.type.code)
=============================================================================
